---- MODULE Spec2Model ----
(***************************************************************************)
(* Model of the tabletop-exercise backend: the exercise controller         *)
(* (backend/controllers/exerciseController.js) over the Exercise and       *)
(* Participant collections, and the socket.io rooms of backend/server.js.  *)
(*                                                                         *)
(* A handler is a sequence of steps, one per awaited store call; the       *)
(* synchronous code that follows an await (status checks, emit, response)  *)
(* belongs to the step of that await.  Under Spec one request is in flight *)
(* at a time; under SpecConc the steps of two requests interleave.         *)
(* SpecRT adds the sockets' messages, SpecFail failing store and broadcast *)
(* calls, SpecPair runs two interleaved releases/toggles on an exercise    *)
(* that holds injects, and SpecScores runs getScores over drawn scores.    *)
(***************************************************************************)
EXTENDS Integers, Sequences, FiniteSets, TLC

VARIABLES exercises, participants, clock, req, events, rooms, inbox,
          everActive, lastRelease, hist, nreq

vars == <<exercises, participants, clock, req, events, rooms, inbox,
          everActive, lastRelease, hist, nreq>>

(* ------------------------------ bounds -------------------------------- *)

MaxRequests == 3
MaxClock == 2
MaxInjects == 2
MaxParticipants == 4

(* ------------------------------ universe ------------------------------ *)

Users == {"alice", "bob"}
ExerciseIds == {"e1", "e2", "e3"}
Procs == {1, 2}
Sockets == {"s1", "s2"}

\* req.body.injectNumber / req.params.injectNumber as received: a string of
\* characters, handed to parseInt by every handler that uses it.
RawNumbers == {<<"1">>, <<"2">>, <<"1", "x">>}

\* Request bodies of updateInject (Object.assign's second argument).
Patches ==
    { [title |-> "revised"], [isActive |-> TRUE],
      [title |-> "revised", injectNumber |-> MaxInjects] }

NaN == -1

Digits == {"0", "1", "2", "3", "4", "5", "6", "7", "8", "9"}

DigitVal(c) ==
    CASE c = "0" -> 0 [] c = "1" -> 1 [] c = "2" -> 2 [] c = "3" -> 3
      [] c = "4" -> 4 [] c = "5" -> 5 [] c = "6" -> 6 [] c = "7" -> 7
      [] c = "8" -> 8 [] c = "9" -> 9

RECURSIVE ParseDigits(_, _, _)
ParseDigits(s, i, acc) ==
    IF i > Len(s) \/ s[i] \notin Digits
    THEN acc
    ELSE ParseDigits(s, i + 1, 10 * acc + DigitVal(s[i]))

\* parseInt: the value of the leading decimal digits, NaN when there is none.
ParseInt(s) ==
    IF Len(s) = 0 \/ s[1] \notin Digits THEN NaN ELSE ParseDigits(s, 1, 0)

Unset == << >>

(* --------------------------- store documents -------------------------- *)

\* The inject sub-document addInject pushes, with the schema's defaults for
\* the lifecycle fields it does not name.
NewInject(title, injectNumber) ==
    [ title |-> title, injectNumber |-> injectNumber, order |-> injectNumber,
      isActive |-> FALSE, releaseTime |-> Unset, responsesOpen |-> FALSE,
      phaseProgressionLocked |-> FALSE ]

\* The plain object addInject answers with (no schema defaults applied).
NewInjectBody(title, injectNumber) ==
    [ title |-> title, injectNumber |-> injectNumber, order |-> injectNumber ]

NoExercise ==
    [ exists |-> FALSE, facilitator |-> "nobody", title |-> "",
      injects |-> << >> ]

NewExercise(owner, title) ==
    [ exists |-> TRUE, facilitator |-> owner, title |-> title,
      injects |-> << >> ]

NewParticipant(id, e, status, score) ==
    [ participantId |-> id, exercise |-> e, status |-> status,
      currentInject |-> 0, currentPhase |-> 1, totalScore |-> score,
      responses |-> << >> ]

\* injects.find / findIndex / the positional operator $: the first element
\* whose injectNumber equals n; 0 when there is none.
FirstIndex(injects, n) ==
    IF \E i \in 1..Len(injects) : injects[i].injectNumber = n
    THEN CHOOSE i \in 1..Len(injects) :
             /\ injects[i].injectNumber = n
             /\ \A j \in 1..(i - 1) : injects[j].injectNumber # n
    ELSE 0

FindInject(injects, n) ==
    IF FirstIndex(injects, n) = 0 THEN << >>
    ELSE << injects[FirstIndex(injects, n)] >>

MatchIndex_FirstInject(db, e, n) ==
    IF db[e].exists /\ Len(db[e].injects) > 0
    THEN (IF FirstIndex(db[e].injects, n) # 0
          THEN FirstIndex(db[e].injects, n) ELSE 1)
    ELSE 0

\* The filter {_id, 'injects.injectNumber': n} of the direct updates.
MatchIndex(db, e, n) ==
    IF db[e].exists THEN FirstIndex(db[e].injects, n) ELSE 0

IsOwner(doc, user) == doc.facilitator = user


(* ------------------------- store operations --------------------------- *)

\* exercise.injects.push(newInject); exercise.save()
PushInject(db, e, inj) ==
    [db EXCEPT ![e].injects = Append(@, inj)]

\* Object.assign(target, body): the body's fields replace the same-named
\* fields of the target, the others stay.
ObjectAssign(inj, patch) ==
    [f \in DOMAIN inj |-> IF f \in DOMAIN patch THEN patch[f] ELSE inj[f]]

\* Object.assign(exercise.injects[injectIndex], req.body); exercise.save():
\* the save writes the assigned paths of element injectIndex.
AssignInject(db, e, idx, patch) ==
    [db EXCEPT ![e].injects[idx] = ObjectAssign(@, patch)]

\* findByIdAndUpdate(id, req.body): the body names the title.
UpdateExerciseDoc(db, e, title) ==
    [db EXCEPT ![e].title = title]

ReleaseUpdate_ClosesOthers(db, e, idx, now) ==
    [db EXCEPT ![e].injects =
        [i \in 1..Len(@) |->
            IF i = idx
            THEN [@[i] EXCEPT !.isActive = TRUE, !.releaseTime = <<now>>,
                              !.responsesOpen = TRUE]
            ELSE [@[i] EXCEPT !.responsesOpen = FALSE]]]

ReleaseUpdate_Unlocks(db, e, idx, now) ==
    [db EXCEPT ![e].injects[idx].isActive = TRUE,
               ![e].injects[idx].releaseTime = <<now>>,
               ![e].injects[idx].responsesOpen = TRUE,
               ![e].injects[idx].phaseProgressionLocked = FALSE]

ReleaseUpdate_NoStamp(db, e, idx, now) ==
    [db EXCEPT ![e].injects[idx].isActive = TRUE,
               ![e].injects[idx].responsesOpen = TRUE]

\* updateOne(..., {$set: {'injects.$.isActive': true, 'injects.$.releaseTime':
\* new Date(), 'injects.$.responsesOpen': true, updatedAt: new Date()}}).
\* The exercise's updatedAt is left out of the documents: every write that
\* names it sets it to the time of the write and the clock never goes back,
\* so whenever releaseTime already equals now, updatedAt does too, and
\* modifiedCount is decided by the three inject fields.
ReleaseUpdate(db, e, idx, now) ==
    [db EXCEPT ![e].injects[idx].isActive = TRUE,
               ![e].injects[idx].releaseTime = <<now>>,
               ![e].injects[idx].responsesOpen = TRUE]

SetResponsesOpen_Sticky(db, e, idx, v) ==
    [db EXCEPT ![e].injects[idx].responsesOpen = @ \/ v]

SetResponsesOpen_EveryInject(db, e, idx, v) ==
    [db EXCEPT ![e].injects =
        [i \in 1..Len(@) |-> [@[i] EXCEPT !.responsesOpen = v]]]

\* updateOne(..., {$set: {'injects.$.responsesOpen': v, ...}})
SetResponsesOpen(db, e, idx, v) ==
    [db EXCEPT ![e].injects[idx].responsesOpen = v]

SetPhaseProgressionLocked_Lost(db, e, idx, v) == db

\* updateOne(..., {$set: {'injects.$.phaseProgressionLocked': v, ...}})
SetPhaseProgressionLocked(db, e, idx, v) ==
    [db EXCEPT ![e].injects[idx].phaseProgressionLocked = v]

Cascade_FirstMatch(parts, e, n) ==
    [i \in DOMAIN parts |->
        IF /\ parts[i].exercise = e /\ parts[i].status = "active"
           /\ \A j \in 1..(i - 1) :
                 ~(parts[j].exercise = e /\ parts[j].status = "active")
        THEN [parts[i] EXCEPT !.currentInject = n, !.currentPhase = 1]
        ELSE parts[i]]

Cascade_KeepsPhase(parts, e, n) ==
    [i \in DOMAIN parts |->
        IF parts[i].exercise = e /\ parts[i].status = "active"
        THEN [parts[i] EXCEPT !.currentInject = n]
        ELSE parts[i]]

\* updateMany({exercise, status: 'active'}, {$set: {currentInject, currentPhase: 1}})
Cascade(parts, e, n) ==
    [i \in DOMAIN parts |->
        IF parts[i].exercise = e /\ parts[i].status = "active"
        THEN [parts[i] EXCEPT !.currentInject = n, !.currentPhase = 1]
        ELSE parts[i]]

(* ----------------------------- scoring -------------------------------- *)

RECURSIVE SumPoints(_, _)
SumPoints(responses, n) ==
    IF responses = << >> THEN 0
    ELSE (IF Head(responses).injectNumber = n THEN Head(responses).pointsEarned ELSE 0)
         + SumPoints(Tail(responses), n)

\* calculateInjectScores: points summed per injectNumber that occurs.
calculateInjectScores(responses) ==
    [n \in {responses[i].injectNumber : i \in 1..Len(responses)} |->
        SumPoints(responses, n)]

RECURSIVE SelectSeqIdx(_, _, _)
SelectSeqIdx(parts, e, onlyActive) ==
    IF parts = << >> THEN << >>
    ELSE (IF Head(parts).exercise = e /\ (~onlyActive \/ Head(parts).status = "active")
          THEN << Head(parts) >> ELSE << >>)
         \o SelectSeqIdx(Tail(parts), e, onlyActive)

RECURSIVE InsertDesc_BeforeEquals(_, _)
InsertDesc_BeforeEquals(sorted, x) ==
    IF sorted = << >> THEN << x >>
    ELSE IF Head(sorted).totalScore > x.totalScore
         THEN << Head(sorted) >> \o InsertDesc_BeforeEquals(Tail(sorted), x)
         ELSE << x >> \o sorted

\* Insert x after every element whose totalScore is >= x's: a stable
\* descending order, as Array.prototype.sort with (a, b) => b - a gives.
RECURSIVE InsertDesc(_, _)
InsertDesc(sorted, x) ==
    IF sorted = << >> THEN << x >>
    ELSE IF Head(sorted).totalScore >= x.totalScore
         THEN << Head(sorted) >> \o InsertDesc(Tail(sorted), x)
         ELSE << x >> \o sorted

RECURSIVE SortDesc(_)
SortDesc(s) ==
    IF s = << >> THEN << >>
    ELSE InsertDesc(SortDesc(SubSeq(s, 1, Len(s) - 1)), s[Len(s)])

SumScores_FirstOnly(s) ==
    IF s = << >> THEN 0 ELSE Head(s).totalScore

RECURSIVE SumScores(_)
SumScores(s) ==
    IF s = << >> THEN 0 ELSE Head(s).totalScore + SumScores(Tail(s))

LeaderboardRow(p) ==
    [ participantId |-> p.participantId, totalScore |-> p.totalScore,
      injectScores |-> calculateInjectScores(p.responses) ]

\* The body getScores answers with; averageScore is kept as the pair
\* numerator/denominator of the division the code performs.
ScoresBody(doc, parts) ==
    [ exerciseTitle |-> doc.title,
      totalParticipants |-> Len(parts),
      leaderboard |-> SortDesc([i \in 1..Len(parts) |-> LeaderboardRow(parts[i])]),
      averageScore |-> IF Len(parts) > 0 THEN << SumScores(parts), Len(parts) >>
                       ELSE << 0, 1 >> ]

RECURSIVE Reverse(_)
Reverse(s) == IF s = << >> THEN << >> ELSE Reverse(Tail(s)) \o << Head(s) >>

(* ------------------------------ requests ------------------------------ *)

NoReq ==
    [ id |-> 0, op |-> "none", pc |-> "idle", user |-> "nobody", ex |-> "e1",
      raw |-> << >>, arg |-> << >>, now |-> 0, idx |-> 0, seen |-> 0,
      local |-> << >>, code |-> 0, body |-> << >> ]

NewReq(id, op, user, e, raw, arg) ==
    [ NoReq EXCEPT !.id = id, !.op = op, !.user = user, !.ex = e, !.raw = raw,
                   !.arg = arg ]

Respond(r, code, body) ==
    [r EXCEPT !.pc = "done", !.code = code, !.body = body, !.local = << >>]

\* Answering and returning are one moment of the handler: nothing else
\* happens while a request has answered and not yet returned.
Settled == \A q \in Procs : req[q].pc # "done"

CanStart(p) == Settled /\ req[p].pc = "idle" /\ nreq < MaxRequests

\* res.status(404) / res.status(403) of the handlers that load the exercise
\* and compare its facilitator with req.user.id; 0 when the request goes on.
LoadStatus(doc, user) ==
    IF ~doc.exists THEN 404
    ELSE IF ~IsOwner(doc, user) THEN 403
    ELSE 0

\* Ghost: whether isActive has been true at some point, per inject position.
EverNext(db) ==
    [e \in ExerciseIds |->
        [i \in 1..Len(db[e].injects) |->
            \/ db[e].injects[i].isActive
            \/ (i <= Len(everActive[e]) /\ everActive[e][i])]]

Emit_ToEveryRoom(ev) ==
    /\ events' = Append(events, ev)
    /\ inbox' = [s \in Sockets |->
                    IF rooms[s] # {} THEN Append(inbox[s], ev) ELSE inbox[s]]

\* io.to(`exercise-${exerciseId}`).emit(name, payload): the sockets in the
\* room at this moment get the event; nothing is kept for the others.
Emit(ev) ==
    /\ events' = Append(events, ev)
    /\ inbox' = [s \in Sockets |->
                    IF <<"exercise", ev.ex>> \in rooms[s]
                    THEN Append(inbox[s], ev) ELSE inbox[s]]

ioAttached == TRUE

NoEmit == UNCHANGED <<events, inbox>>

StoreUnchanged == UNCHANGED <<exercises, participants, everActive>>

\* Ghost: per inject position, whether an updateInject body has written one
\* of its lifecycle fields; and whether every request so far was an addInject.
NamesLifecycle(patch) == DOMAIN patch \cap {"isActive", "releaseTime"} # {}

Began(op) == hist' = [hist EXCEPT !.addsOnly = @ /\ op = "addInject"]

\* Ghost: the successful releaseInject that was the last request to complete.
NoRelease == [ ex |-> "none", n |-> NaN, now |-> 0 ]

\* The handler has answered and returns; its locals are gone.
Return(p) ==
    /\ req[p].pc = "done"
    /\ req' = [req EXCEPT ![p] = NoReq]
    /\ lastRelease' = IF req[p].op = "releaseInject" /\ req[p].code = 200
                      THEN [ ex |-> req[p].ex, n |-> ParseInt(req[p].raw),
                             now |-> req[p].now ]
                      ELSE NoRelease
    /\ StoreUnchanged
    /\ NoEmit
    /\ UNCHANGED <<clock, rooms, nreq, hist>>

(* ------------------------------ addInject ----------------------------- *)

\* Exercise.findById, the 404/403 answers, and the inject number taken from
\* the length of the loaded array.
AddInjectFind(p, user, e, title) ==
    /\ CanStart(p)
    /\ Len(exercises[e].injects) < MaxInjects
    /\ LET r == NewReq(nreq + 1, "addInject", user, e, << >>, title)
           st == LoadStatus(exercises[e], user)
       IN  req' = [req EXCEPT ![p] =
                     IF st # 0 THEN Respond(r, st, << >>)
                     ELSE [r EXCEPT !.pc = "save",
                                    !.seen = Len(exercises[e].injects)]]
    /\ nreq' = nreq + 1
    /\ Began("addInject")
    /\ StoreUnchanged
    /\ NoEmit
    /\ UNCHANGED <<clock, rooms, lastRelease>>

NextInjectNumber_Length(len) == len

\* const injectNumber = exercise.injects.length + 1
NextInjectNumber(len) == len + 1

\* push; save; 201.
AddInjectSave(p) ==
    /\ req[p].op = "addInject" /\ req[p].pc = "save"
    /\ LET n == NextInjectNumber(req[p].seen)
       IN  /\ exercises' = PushInject(exercises, req[p].ex,
                                      NewInject(req[p].arg, n))
           /\ req' = [req EXCEPT ![p] =
                        Respond(@, 201, << NewInjectBody(req[p].arg, n) >>)]
    /\ everActive' = EverNext(exercises')
    /\ NoEmit
    /\ hist' = [hist EXCEPT !.patched[req[p].ex] = Append(@, FALSE)]
    /\ UNCHANGED <<participants, clock, rooms, lastRelease, nreq>>

(* ----------------------------- updateInject --------------------------- *)

UpdateInjectFind(p, user, e, raw, patch) ==
    /\ CanStart(p)
    /\ LET r == NewReq(nreq + 1, "updateInject", user, e, raw, patch)
           st == LoadStatus(exercises[e], user)
           idx == FirstIndex(exercises[e].injects, ParseInt(raw))
       IN  req' = [req EXCEPT ![p] =
                     IF st # 0 THEN Respond(r, st, << >>)
                     ELSE IF idx = 0 THEN Respond(r, 404, << >>)
                     ELSE [r EXCEPT !.pc = "save", !.idx = idx,
                                    !.local = << exercises[e].injects[idx] >>]]
    /\ nreq' = nreq + 1
    /\ Began("updateInject")
    /\ StoreUnchanged
    /\ NoEmit
    /\ UNCHANGED <<clock, rooms, lastRelease>>

UpdateInjectSave(p) ==
    /\ req[p].op = "updateInject" /\ req[p].pc = "save"
    /\ exercises' = AssignInject(exercises, req[p].ex, req[p].idx, req[p].arg)
    /\ req' = [req EXCEPT ![p] =
                 Respond(@, 200, << ObjectAssign(req[p].local[1], req[p].arg) >>)]
    /\ everActive' = EverNext(exercises')
    /\ NoEmit
    /\ hist' = [hist EXCEPT !.patched[req[p].ex][req[p].idx] =
                             @ \/ NamesLifecycle(req[p].arg)]
    /\ UNCHANGED <<participants, clock, rooms, lastRelease, nreq>>

(* ---------------------------- updateExercise -------------------------- *)

UpdateExerciseFind(p, user, e, title) ==
    /\ CanStart(p)
    /\ LET r == NewReq(nreq + 1, "updateExercise", user, e, << >>, title)
           st == LoadStatus(exercises[e], user)
       IN  req' = [req EXCEPT ![p] =
                     IF st # 0 THEN Respond(r, st, << >>)
                     ELSE [r EXCEPT !.pc = "findByIdAndUpdate"]]
    /\ nreq' = nreq + 1
    /\ Began("updateExercise")
    /\ StoreUnchanged
    /\ NoEmit
    /\ UNCHANGED <<clock, rooms, lastRelease>>

UpdateExerciseWrite(p) ==
    /\ req[p].op = "updateExercise" /\ req[p].pc = "findByIdAndUpdate"
    /\ exercises' = UpdateExerciseDoc(exercises, req[p].ex, req[p].arg)
    /\ req' = [req EXCEPT ![p] = Respond(@, 200, << exercises'[req[p].ex].title >>)]
    /\ NoEmit
    /\ UNCHANGED <<participants, clock, rooms, lastRelease, nreq, everActive, hist>>

(* ----------------------------- releaseInject -------------------------- *)

\* The direct updateOne and the answers on matchedCount / modifiedCount.
\* now is what new Date() gives: the time of the previous reading or later.
ReleaseUpdateOne(p, user, e, raw, now) ==
    /\ CanStart(p)
    /\ clock' = now
    /\ LET r == [NewReq(nreq + 1, "releaseInject", user, e, raw, << >>)
                    EXCEPT !.now = now]
           idx == MatchIndex(exercises, e, ParseInt(raw))
           new == IF idx = 0 THEN exercises
                  ELSE ReleaseUpdate(exercises, e, idx, now)
       IN  /\ exercises' = new
           /\ req' = [req EXCEPT ![p] =
                        IF idx = 0 THEN Respond(r, 404, << >>)
                        ELSE IF new = exercises THEN Respond(r, 400, << >>)
                        ELSE [r EXCEPT !.pc = "updateMany", !.idx = idx]]
    /\ everActive' = EverNext(exercises')
    /\ nreq' = nreq + 1
    /\ Began("releaseInject")
    /\ NoEmit
    /\ UNCHANGED <<participants, rooms, lastRelease>>

ReleaseUpdateMany(p) ==
    /\ req[p].op = "releaseInject" /\ req[p].pc = "updateMany"
    /\ participants' = Cascade(participants, req[p].ex, ParseInt(req[p].raw))
    /\ req' = [req EXCEPT ![p].pc = "findOne"]
    /\ NoEmit
    /\ UNCHANGED <<exercises, everActive, clock, rooms, lastRelease, nreq, hist>>

ReleaseFindOne(p) ==
    /\ req[p].op = "releaseInject" /\ req[p].pc = "findOne"
    /\ req' = [req EXCEPT ![p].pc = "emit",
                          ![p].local = FindInject(exercises[req[p].ex].injects,
                                                  ParseInt(req[p].raw))]
    /\ StoreUnchanged
    /\ NoEmit
    /\ UNCHANGED <<clock, rooms, lastRelease, nreq, hist>>

ReleaseEmit(p) ==
    /\ req[p].op = "releaseInject" /\ req[p].pc = "emit"
    /\ IF ioAttached
       THEN Emit([ name |-> "injectReleased", ex |-> req[p].ex,
                   injectNumber |-> req[p].raw, value |-> req[p].local ])
       ELSE NoEmit
    /\ req' = [req EXCEPT ![p] = Respond(@, 200, req[p].local)]
    /\ StoreUnchanged
    /\ UNCHANGED <<clock, rooms, lastRelease, nreq, hist>>

PartialCascade_NoFilter(parts, e, n, S) ==
    [i \in DOMAIN parts |->
        IF i \in S
        THEN [parts[i] EXCEPT !.currentInject = n, !.currentPhase = 1]
        ELSE parts[i]]

\* The participants when updateMany fails after the store has gone through
\* the documents S: the bulk update is not atomic across documents, so those
\* of S that match the filter are updated and the others are not.
PartialCascade(parts, e, n, S) ==
    [i \in DOMAIN parts |->
        IF i \in S THEN Cascade(parts, e, n)[i] ELSE parts[i]]

\* updateMany rejects: the catch block logs and answers 500; nothing is
\* undone and nothing is emitted.
ReleaseUpdateManyFails(p, S) ==
    /\ req[p].op = "releaseInject" /\ req[p].pc = "updateMany"
    /\ participants' = PartialCascade(participants, req[p].ex,
                                      ParseInt(req[p].raw), S)
    /\ req' = [req EXCEPT ![p] = Respond(@, 500, << >>)]
    /\ NoEmit
    /\ UNCHANGED <<exercises, everActive, clock, rooms, lastRelease, nreq, hist>>

(* ------------------ toggleResponses / togglePhaseProgression ---------- *)

ToggleResponsesUpdateOne(p, user, e, raw, v) ==
    /\ CanStart(p)
    /\ LET r == NewReq(nreq + 1, "toggleResponses", user, e, raw, v)
           idx == MatchIndex(exercises, e, ParseInt(raw))
       IN  /\ exercises' = IF idx = 0 THEN exercises
                           ELSE SetResponsesOpen(exercises, e, idx, v)
           /\ req' = [req EXCEPT ![p] =
                        IF idx = 0 THEN Respond(r, 404, << >>)
                        ELSE [r EXCEPT !.pc = "findOne", !.idx = idx]]
    /\ everActive' = EverNext(exercises')
    /\ nreq' = nreq + 1
    /\ Began("toggleResponses")
    /\ NoEmit
    /\ UNCHANGED <<participants, clock, rooms, lastRelease>>

TogglePhaseProgressionUpdateOne(p, user, e, raw, v) ==
    /\ CanStart(p)
    /\ LET r == NewReq(nreq + 1, "togglePhaseProgression", user, e, raw, v)
           idx == MatchIndex(exercises, e, ParseInt(raw))
       IN  /\ exercises' = IF idx = 0 THEN exercises
                           ELSE SetPhaseProgressionLocked(exercises, e, idx, v)
           /\ req' = [req EXCEPT ![p] =
                        IF idx = 0 THEN Respond(r, 404, << >>)
                        ELSE [r EXCEPT !.pc = "findOne", !.idx = idx]]
    /\ everActive' = EverNext(exercises')
    /\ nreq' = nreq + 1
    /\ Began("togglePhaseProgression")
    /\ NoEmit
    /\ UNCHANGED <<participants, clock, rooms, lastRelease>>

IsToggle(op) == op \in {"toggleResponses", "togglePhaseProgression"}

ToggleFindOne(p) ==
    /\ IsToggle(req[p].op) /\ req[p].pc = "findOne"
    /\ req' = [req EXCEPT ![p].pc = "emit",
                          ![p].local = FindInject(exercises[req[p].ex].injects,
                                                  ParseInt(req[p].raw))]
    /\ StoreUnchanged
    /\ NoEmit
    /\ UNCHANGED <<clock, rooms, lastRelease, nreq, hist>>

ToggleEventName(op) ==
    IF op = "toggleResponses" THEN "responsesToggled" ELSE "phaseProgressionToggled"

ToggleEmit(p) ==
    /\ IsToggle(req[p].op) /\ req[p].pc = "emit"
    /\ IF ioAttached
       THEN Emit([ name |-> ToggleEventName(req[p].op), ex |-> req[p].ex,
                   injectNumber |-> req[p].raw, value |-> req[p].arg ])
       ELSE NoEmit
    /\ req' = [req EXCEPT ![p] = Respond(@, 200, req[p].local)]
    /\ StoreUnchanged
    /\ UNCHANGED <<clock, rooms, lastRelease, nreq, hist>>

\* emit throws inside the handler's try: the catch block answers 500.
EmitThrows(p) ==
    /\ req[p].op \in {"releaseInject", "toggleResponses", "togglePhaseProgression"}
    /\ req[p].pc = "emit"
    /\ req' = [req EXCEPT ![p] = Respond(@, 500, << >>)]
    /\ StoreUnchanged
    /\ NoEmit
    /\ UNCHANGED <<clock, rooms, lastRelease, nreq, hist>>

\* if (req.io) with no io on the request: the emit is skipped.
EmitWithoutIo(p) ==
    /\ req[p].op \in {"releaseInject", "toggleResponses", "togglePhaseProgression"}
    /\ req[p].pc = "emit"
    /\ req' = [req EXCEPT ![p] = Respond(@, 200, req[p].local)]
    /\ StoreUnchanged
    /\ NoEmit
    /\ UNCHANGED <<clock, rooms, lastRelease, nreq, hist>>

(* --------------------- getParticipants / getScores -------------------- *)

ReadFind(r, doc) ==
    IF LoadStatus(doc, r.user) # 0 THEN Respond(r, LoadStatus(doc, r.user), << >>)
    ELSE [r EXCEPT !.pc = "find"]

GetParticipantsFind(p, user, e) ==
    /\ CanStart(p)
    /\ req' = [req EXCEPT ![p] =
                 ReadFind(NewReq(nreq + 1, "getParticipants", user, e, << >>, << >>),
                          exercises[e])]
    /\ nreq' = nreq + 1
    /\ Began("getParticipants")
    /\ StoreUnchanged
    /\ NoEmit
    /\ UNCHANGED <<clock, rooms, lastRelease>>

\* Participant.find({exercise}).sort('-joinedAt'): the store keeps the
\* participants in joining order.
GetParticipantsList(p) ==
    /\ req[p].op = "getParticipants" /\ req[p].pc = "find"
    /\ req' = [req EXCEPT ![p] =
                 Respond(@, 200, Reverse(SelectSeqIdx(participants, req[p].ex, FALSE)))]
    /\ StoreUnchanged
    /\ NoEmit
    /\ UNCHANGED <<clock, rooms, lastRelease, nreq, hist>>

GetScoresFind(p, user, e) ==
    /\ CanStart(p)
    /\ req' = [req EXCEPT ![p] =
                 ReadFind(NewReq(nreq + 1, "getScores", user, e, << >>, << >>),
                          exercises[e])]
    /\ nreq' = nreq + 1
    /\ Began("getScores")
    /\ StoreUnchanged
    /\ NoEmit
    /\ UNCHANGED <<clock, rooms, lastRelease>>

GetScoresList(p) ==
    /\ req[p].op = "getScores" /\ req[p].pc = "find"
    /\ req' = [req EXCEPT ![p] =
                 Respond(@, 200, ScoresBody(exercises[req[p].ex],
                                   SelectSeqIdx(participants, req[p].ex, TRUE)))]
    /\ StoreUnchanged
    /\ NoEmit
    /\ UNCHANGED <<clock, rooms, lastRelease, nreq, hist>>

(* ----------------------------- environment ---------------------------- *)

\* What new Date() may give when the last reading gave clock.
Dates == { t \in {clock, clock + 1} : t <= MaxClock }

\* A request of a participant (the participant routes): an active
\* participant moves to the next phase of the inject they are at.
ParticipantAdvance(i) ==
    /\ Settled
    /\ nreq < MaxRequests
    /\ participants[i].status = "active"
    /\ participants' = [participants EXCEPT ![i].currentPhase = @ + 1]
    /\ nreq' = nreq + 1
    /\ Began("participant")
    /\ lastRelease' = NoRelease
    /\ UNCHANGED <<exercises, clock, req, events, rooms, inbox, everActive>>

\* socket.on('joinExercise', id => socket.join(`exercise-${id}`))
JoinExercise(s, e) ==
    /\ Settled
    /\ nreq < MaxRequests
    /\ nreq' = nreq + 1
    /\ <<"exercise", e>> \notin rooms[s]
    /\ rooms' = [rooms EXCEPT ![s] = @ \cup {<<"exercise", e>>}]
    /\ UNCHANGED <<exercises, participants, clock, req, events, inbox,
                   everActive, lastRelease, hist>>

\* socket.on('joinAsParticipant', id => socket.join(`participant-${id}`))
JoinAsParticipant(s, pid) ==
    /\ Settled
    /\ nreq < MaxRequests
    /\ nreq' = nreq + 1
    /\ <<"participant", pid>> \notin rooms[s]
    /\ rooms' = [rooms EXCEPT ![s] = @ \cup {<<"participant", pid>>}]
    /\ UNCHANGED <<exercises, participants, clock, req, events, inbox,
                   everActive, lastRelease, hist>>

\* A socket that disconnects leaves every room.
Disconnect(s) ==
    /\ Settled
    /\ nreq < MaxRequests
    /\ nreq' = nreq + 1
    /\ rooms[s] # {}
    /\ rooms' = [rooms EXCEPT ![s] = {}]
    /\ UNCHANGED <<exercises, participants, clock, req, events, inbox,
                   everActive, lastRelease, hist>>

(* --------------------------- specifications --------------------------- *)

Init ==
    /\ exercises = [e \in ExerciseIds |->
                      CASE e = "e1" -> NewExercise("alice", "drill")
                        [] e = "e2" -> NewExercise("bob", "drill")
                        [] OTHER -> NoExercise]
    /\ participants =
         << [NewParticipant("p1", "e1", "active", 30) EXCEPT
                !.responses = << [injectNumber |-> 1, pointsEarned |-> 10],
                                 [injectNumber |-> 1, pointsEarned |-> 20] >>],
            [NewParticipant("p2", "e1", "completed", 50) EXCEPT
                !.responses = << [injectNumber |-> 1, pointsEarned |-> 50] >>],
            NewParticipant("p3", "e2", "active", 10) >>
    /\ clock = 1
    /\ req = [p \in Procs |-> NoReq]
    /\ events = << >>
    /\ rooms = [s \in Sockets |-> {}]
    /\ inbox = [s \in Sockets |-> << >>]
    /\ everActive = [e \in ExerciseIds |-> << >>]
    /\ lastRelease = NoRelease
    /\ hist = [ patched |-> [e \in ExerciseIds |-> << >>], addsOnly |-> TRUE ]
    /\ nreq = 0

Requests(p) ==
    \/ \E u \in Users, e \in ExerciseIds :
          \/ AddInjectFind(p, u, e, "breach")
          \/ UpdateExerciseFind(p, u, e, "renamed")
          \/ GetParticipantsFind(p, u, e)
          \/ GetScoresFind(p, u, e)
          \/ \E raw \in RawNumbers :
                \/ \E now \in Dates : ReleaseUpdateOne(p, u, e, raw, now)
                \/ \E patch \in Patches : UpdateInjectFind(p, u, e, raw, patch)
                \/ \E v \in BOOLEAN :
                      \/ ToggleResponsesUpdateOne(p, u, e, raw, v)
                      \/ TogglePhaseProgressionUpdateOne(p, u, e, raw, v)
    \/ AddInjectSave(p)
    \/ UpdateInjectSave(p)
    \/ UpdateExerciseWrite(p)
    \/ ReleaseUpdateMany(p)
    \/ ReleaseFindOne(p)
    \/ ReleaseEmit(p)
    \/ ToggleFindOne(p)
    \/ ToggleEmit(p)
    \/ GetParticipantsList(p)
    \/ GetScoresList(p)
    \/ Return(p)

Environment ==
    \E i \in DOMAIN participants : ParticipantAdvance(i)

\* No request is in flight.
Quiet == \A q \in Procs : req[q].pc = "idle"

\* One request at a time: the participants' requests too wait for the
\* request in flight.
Next == Requests(1) \/ (Quiet /\ Environment)

Spec == Init /\ [][Next]_vars

\* Two requests whose store calls interleave.
NextConc == (\E p \in Procs : Requests(p)) \/ Environment

SpecConc == Init /\ [][NextConc]_vars

SocketEvents ==
    \E s \in Sockets :
        \/ \E e \in ExerciseIds : JoinExercise(s, e)
        \/ \E i \in DOMAIN participants :
              JoinAsParticipant(s, participants[i].participantId)
        \/ Disconnect(s)

\* The requests that end in a broadcast, and addInject, which gives them an
\* inject to name.
BroadcastRequests(p) ==
    \/ \E u \in Users, e \in ExerciseIds :
          \/ AddInjectFind(p, u, e, "breach")
          \/ \E raw \in RawNumbers :
                \/ \E now \in Dates : ReleaseUpdateOne(p, u, e, raw, now)
                \/ \E v \in BOOLEAN :
                      \/ ToggleResponsesUpdateOne(p, u, e, raw, v)
                      \/ TogglePhaseProgressionUpdateOne(p, u, e, raw, v)
    \/ AddInjectSave(p)
    \/ ReleaseUpdateMany(p)
    \/ ReleaseFindOne(p)
    \/ ReleaseEmit(p)
    \/ ToggleFindOne(p)
    \/ ToggleEmit(p)
    \/ Return(p)

\* Sockets join and leave rooms while those requests run.
NextRT == BroadcastRequests(1) \/ SocketEvents

SpecRT == Init /\ [][NextRT]_vars

\* The store after the owner of the first exercise has added MaxInjects
\* injects.
InitPair ==
    /\ exercises =
         [e \in ExerciseIds |->
            CASE e = "e1" ->
                    [NewExercise("alice", "drill") EXCEPT
                        !.injects = [i \in 1..MaxInjects |->
                                       NewInject("breach", NextInjectNumber(i - 1))]]
              [] e = "e2" -> NewExercise("bob", "drill")
              [] OTHER -> NoExercise]
    /\ participants =
         << NewParticipant("p1", "e1", "active", 30),
            NewParticipant("p2", "e1", "active", 50),
            NewParticipant("p3", "e2", "active", 10) >>
    /\ clock = 1
    /\ req = [p \in Procs |-> NoReq]
    /\ events = << >>
    /\ rooms = [s \in Sockets |-> {}]
    /\ inbox = [s \in Sockets |-> << >>]
    /\ everActive = [e \in ExerciseIds |->
                        [i \in 1..Len(exercises[e].injects) |-> FALSE]]
    /\ lastRelease = NoRelease
    /\ hist = [ patched |-> [e \in ExerciseIds |->
                               [i \in 1..Len(exercises[e].injects) |-> FALSE]],
                addsOnly |-> TRUE ]
    /\ nreq = 0

\* One release or toggle in request slot p, from its first store call to
\* its answer.
LifecycleRequests(p) ==
    \/ \E u \in Users, e \in ExerciseIds, raw \in RawNumbers :
          \/ \E now \in Dates : ReleaseUpdateOne(p, u, e, raw, now)
          \/ \E v \in BOOLEAN :
                \/ ToggleResponsesUpdateOne(p, u, e, raw, v)
                \/ TogglePhaseProgressionUpdateOne(p, u, e, raw, v)
    \/ ReleaseUpdateMany(p)
    \/ ReleaseFindOne(p)
    \/ ReleaseEmit(p)
    \/ ToggleFindOne(p)
    \/ ToggleEmit(p)

\* Two requests, one per slot, whose store calls interleave: the second
\* starts before the first has answered.
NextPair == \E p \in Procs : LifecycleRequests(p)

SpecPair == InitPair /\ [][NextPair]_vars

\* A store call or the broadcast of the request in slot p fails.
Failures(p) ==
    \/ \E S \in SUBSET DOMAIN participants : ReleaseUpdateManyFails(p, S)
    \/ EmitThrows(p)
    \/ EmitWithoutIo(p)

\* The broadcasting requests, one at a time, with those failures, between
\* the participants' own requests.
NextFail == BroadcastRequests(1) \/ Failures(1) \/ (Quiet /\ Environment)

SpecFail == Init /\ [][NextFail]_vars

\* totalScore values and the participants of the first exercise a
\* getScores request may find: any MaxParticipants or fewer, active or not,
\* in any joining order.
Scores == {10, 30, 50}

Enrolled ==
    UNION { [1..n -> {"active", "completed"} \X Scores] : n \in 0..MaxParticipants }

InitScores ==
    /\ exercises = [e \in ExerciseIds |->
                      CASE e = "e1" -> NewExercise("alice", "drill")
                        [] e = "e2" -> NewExercise("bob", "drill")
                        [] OTHER -> NoExercise]
    /\ \E en \in Enrolled :
          participants =
             [i \in 1..Len(en) |->
                 NewParticipant(ToString(i), "e1", en[i][1], en[i][2])]
             \o << NewParticipant("other", "e2", "active", 10) >>
    /\ clock = 1
    /\ req = [p \in Procs |-> NoReq]
    /\ events = << >>
    /\ rooms = [s \in Sockets |-> {}]
    /\ inbox = [s \in Sockets |-> << >>]
    /\ everActive = [e \in ExerciseIds |-> << >>]
    /\ lastRelease = NoRelease
    /\ hist = [ patched |-> [e \in ExerciseIds |-> << >>], addsOnly |-> TRUE ]
    /\ nreq = 0

\* One getScores request.
NextScores ==
    \/ \E u \in Users, e \in ExerciseIds : GetScoresFind(1, u, e)
    \/ GetScoresList(1)

SpecScores == InitScores /\ [][NextScores]_vars

(* ------------------------------ claims -------------------------------- *)

Stored(db, e, n) == FindInject(db[e].injects, n)

\* A step of the request in slot p (its first store call included).
StepOf(p) == req'[p].id # req[p].id \/ req'[p].pc # req[p].pc

Begins(p, op) == req[p].pc = "idle" /\ req'[p].op = op

ActiveIn(e) ==
    { i \in DOMAIN participants :
        participants[i].exercise = e /\ participants[i].status = "active" }

\* C1: a releaseInject of the inject the previous request released (nothing
\* in between, the clock advanced) answers 400 and leaves the inject's
\* isActive, responsesOpen and releaseTime as the first call left them.
C1_SecondReleaseRejected ==
    [][\A p \in Procs :
          ( /\ Begins(p, "releaseInject")
            /\ lastRelease # NoRelease
            /\ req'[p].ex = lastRelease.ex
            /\ ParseInt(req'[p].raw) = lastRelease.n
            /\ req'[p].now > lastRelease.now )
          => /\ req'[p].pc = "done" /\ req'[p].code = 400
             /\ LET a == Stored(exercises, lastRelease.ex, lastRelease.n)
                    b == Stored(exercises', lastRelease.ex, lastRelease.n)
                IN  /\ a # << >> /\ b # << >>
                    /\ b[1].isActive = a[1].isActive
                    /\ b[1].responsesOpen = a[1].responsesOpen
                    /\ b[1].releaseTime = a[1].releaseTime]_vars

GuardedOps ==
    { "updateExercise", "addInject", "updateInject", "releaseInject",
      "toggleResponses", "togglePhaseProgression", "getParticipants", "getScores" }

NamesInject(op) ==
    op \in {"updateInject", "releaseInject", "toggleResponses", "togglePhaseProgression"}

\* C2: every step of a request of one of the eight operations, made by a
\* facilitator who does not own the (existing) exercise (and naming, where
\* the operation names one, an inject the exercise has), leaves the store
\* and the broadcast log as they are, and the request answers 403.
C2_NonOwnerForbidden ==
    [][\A p \in Procs :
          ( /\ StepOf(p)
            /\ req'[p].op \in GuardedOps
            /\ exercises[req'[p].ex].exists
            /\ ~IsOwner(exercises[req'[p].ex], req'[p].user)
            /\ NamesInject(req'[p].op)
                 => MatchIndex(exercises, req'[p].ex, ParseInt(req'[p].raw)) # 0 )
          => /\ exercises' = exercises
             /\ participants' = participants
             /\ Len(events') = Len(events)
             /\ (req'[p].pc = "done" => req'[p].code = 403)]_vars

\* C3: when releaseInject(e, N) has answered success, every active
\* participant of e is at currentInject N, currentPhase 1.
C3_ReleaseRepositions ==
    \A p \in Procs :
        (req[p].op = "releaseInject" /\ req[p].pc = "done" /\ req[p].code = 200)
        => \A i \in ActiveIn(req[p].ex) :
              /\ participants[i].currentInject = ParseInt(req[p].raw)
              /\ participants[i].currentPhase = 1

C3_Witness ==
    \E p \in Procs :
        /\ req[p].op = "releaseInject" /\ req[p].pc = "done" /\ req[p].code = 200
        /\ ActiveIn(req[p].ex) # {}
        /\ \E i \in DOMAIN participants :
              participants[i].exercise # req[p].ex /\ participants[i].currentPhase > 1

InjectPositions == { <<e, i>> \in ExerciseIds \X (1..(MaxInjects + 1)) :
                       i <= Len(exercises[e].injects) }

\* C4: for every inject, releaseTime is set iff isActive has been true at
\* some point.
C4_ReleaseTimeIffEverActive ==
    \A x \in InjectPositions :
        (exercises[x[1]].injects[x[2]].releaseTime # Unset) <=> everActive[x[1]][x[2]]

\* C4 as amended: the same, for every inject none of whose lifecycle fields
\* (isActive, releaseTime) was written by an updateInject body.
C4_ReleaseTimeIffEverActiveUnpatched ==
    \A x \in InjectPositions :
        ~hist.patched[x[1]][x[2]]
        => ((exercises[x[1]].injects[x[2]].releaseTime # Unset)
              <=> everActive[x[1]][x[2]])

C4_Witness ==
    /\ \E x \in InjectPositions :
          /\ ~hist.patched[x[1]][x[2]]
          /\ exercises[x[1]].injects[x[2]].releaseTime # Unset
          /\ everActive[x[1]][x[2]]
    /\ \E x \in InjectPositions :
          /\ ~hist.patched[x[1]][x[2]]
          /\ exercises[x[1]].injects[x[2]].releaseTime = Unset
          /\ ~everActive[x[1]][x[2]]

\* C5: a releaseInject never changes or clears a releaseTime that is set.
C5_ReleaseTimeWriteOnce ==
    [][\A p \in Procs :
          Begins(p, "releaseInject")
          => \A x \in InjectPositions :
                exercises[x[1]].injects[x[2]].releaseTime # Unset
                => exercises'[x[1]].injects[x[2]].releaseTime
                     = exercises[x[1]].injects[x[2]].releaseTime]_vars

\* The field a toggle names.
Named(op) ==
    IF op = "toggleResponses" THEN "responsesOpen" ELSE "phaseProgressionLocked"

\* C6: every step of a toggleResponses / togglePhaseProgression request
\* leaves the participants, the exercises' own fields, the number of injects
\* and every inject as they are, except the named field of the matched
\* inject.
C6_ToggleFrame ==
    [][\A p \in Procs :
          (StepOf(p) /\ IsToggle(req'[p].op))
          => /\ participants' = participants
             /\ \A e \in ExerciseIds :
                   /\ exercises'[e].title = exercises[e].title
                   /\ exercises'[e].facilitator = exercises[e].facilitator
                   /\ exercises'[e].exists = exercises[e].exists
                   /\ Len(exercises'[e].injects) = Len(exercises[e].injects)
                   /\ \A i \in 1..Len(exercises[e].injects) :
                         LET a == exercises[e].injects[i]
                             b == exercises'[e].injects[i]
                         IN  IF /\ e = req'[p].ex
                                /\ i = FirstIndex(exercises[e].injects,
                                                  ParseInt(req'[p].raw))
                             THEN /\ \A f \in DOMAIN a \ {Named(req'[p].op)} :
                                        b[f] = a[f]
                                  /\ Begins(p, req'[p].op)
                                       => b[Named(req'[p].op)] = req'[p].arg
                             ELSE b = a]_vars

C6_Witness ==
    \E p \in Procs :
        /\ IsToggle(req[p].op) /\ req[p].pc = "done" /\ req[p].code = 200
        /\ req[p].arg = TRUE
        /\ Len(exercises[req[p].ex].injects) > 1
        /\ req[p].body # << >>
        /\ req[p].body[1][Named(req[p].op)]

\* C7: while every request so far was an addInject, each exercise's injects
\* carry injectNumber 1..k in insertion order with order = injectNumber, and
\* the addInject that has just answered returned the number k of its inject.
C7_AddInjectDense ==
    hist.addsOnly
    => /\ \A x \in InjectPositions :
             /\ exercises[x[1]].injects[x[2]].injectNumber = x[2]
             /\ exercises[x[1]].injects[x[2]].order = x[2]
       /\ \A p \in Procs :
             (req[p].op = "addInject" /\ req[p].pc = "done" /\ req[p].code = 201)
             => /\ req[p].body[1].injectNumber = Len(exercises[req[p].ex].injects)
                /\ req[p].body[1].order = req[p].body[1].injectNumber

C7_Witness ==
    /\ hist.addsOnly
    /\ \E p \in Procs :
          /\ req[p].op = "addInject" /\ req[p].pc = "done" /\ req[p].code = 201
          /\ Len(exercises[req[p].ex].injects) = MaxInjects

\* C8: the injectNumbers of every exercise are 1..n in insertion order.
C8_InjectNumbersDense ==
    \A x \in InjectPositions : exercises[x[1]].injects[x[2]].injectNumber = x[2]

\* C9: at the step that emits an event, the store already holds the write
\* of the emitting request: the toggled flag has the emitted value; the
\* released inject is active, open, stamped with the request's time and is
\* the payload, and the active participants are at that inject, phase 1.
C9_EmitAfterCommit ==
    [][Len(events') # Len(events)
       => LET ev == events'[Len(events')]
              n == ParseInt(ev.injectNumber)
              inj == Stored(exercises', ev.ex, n)
          IN  /\ Len(events') = Len(events) + 1
              /\ inj # << >>
              /\ \E p \in Procs :
                    /\ req[p].pc = "emit" /\ req'[p].pc = "done"
                    /\ req[p].ex = ev.ex /\ req[p].raw = ev.injectNumber
                    /\ CASE ev.name = "injectReleased" ->
                              /\ inj[1].isActive /\ inj[1].responsesOpen
                              /\ inj[1].releaseTime = << req[p].now >>
                              /\ ev.value = inj
                              /\ \A i \in ActiveIn(ev.ex) :
                                    /\ participants'[i].currentInject = n
                                    /\ participants'[i].currentPhase = 1
                         [] ev.name = "responsesToggled" ->
                              inj[1].responsesOpen = ev.value
                         [] ev.name = "phaseProgressionToggled" ->
                              inj[1].phaseProgressionLocked = ev.value]_vars

C9_Witness ==
    /\ Len(events) > 1
    /\ events[1].name = "injectReleased"
    /\ events[2].name # "injectReleased"
    /\ ActiveIn(events[1].ex) # {}
\* C10: a socket's inbox grows only at the step that emits an event, by that
\* event, and only when the socket is in the room of the event's exercise at
\* that step; every socket in that room gets it.
C10_RoomDelivery ==
    [][\A s \in Sockets :
          /\ Len(inbox'[s]) # Len(inbox[s])
               => /\ Len(events') = Len(events) + 1
                  /\ inbox'[s] = Append(inbox[s], events'[Len(events')])
                  /\ <<"exercise", events'[Len(events')].ex>> \in rooms[s]
          /\ ( /\ Len(events') # Len(events)
               /\ <<"exercise", events'[Len(events')].ex>> \in rooms[s] )
               => inbox'[s] = Append(inbox[s], events'[Len(events')])]_vars

C10_Witness ==
    \E s, t \in Sockets :
        /\ Len(events) = 1
        /\ inbox[s] = events
        /\ <<"exercise", events[1].ex>> \in rooms[s]
        /\ inbox[t] = << >>
\* The position of the inject a request names: the first whose injectNumber
\* is the request's number; 0 when no inject of the exercise carries it.
Carries(db, e, n) ==
    { i \in 1..Len(db[e].injects) : db[e].injects[i].injectNumber = n }

Names(db, r, i) ==
    /\ i \in Carries(db, r.ex, ParseInt(r.raw))
    /\ \A j \in Carries(db, r.ex, ParseInt(r.raw)) : i <= j

\* The inject as request r's update leaves it.
WrittenBy(r, inj) ==
    CASE r.op = "releaseInject" ->
            [inj EXCEPT !.isActive = TRUE, !.releaseTime = <<r.now>>,
                        !.responsesOpen = TRUE]
      [] r.op = "toggleResponses" -> [inj EXCEPT !.responsesOpen = r.arg]
      [] r.op = "togglePhaseProgression" ->
            [inj EXCEPT !.phaseProgressionLocked = r.arg]
      [] OTHER -> inj

\* C11: while release/toggle requests interleave, an inject changes only at
\* the update of a request that names it, and to exactly what that request
\* writes: no request changes or undoes what another wrote to another inject.
C11_DisjointWritesKept ==
    [][\A e \in ExerciseIds :
          /\ Len(exercises'[e].injects) = Len(exercises[e].injects)
          /\ \A i \in 1..Len(exercises[e].injects) :
                exercises'[e].injects[i] # exercises[e].injects[i]
                => \E p \in Procs :
                      /\ req'[p].id # req[p].id
                      /\ req'[p].ex = e
                      /\ Names(exercises, req'[p], i)
                      /\ exercises'[e].injects[i]
                           = WrittenBy(req'[p], exercises[e].injects[i])]_vars

\* Both requests have answered success, for different injects of one
\* exercise, and each inject holds what its request wrote.
C11_Witness ==
    /\ req[1].pc = "done" /\ req[2].pc = "done"
    /\ req[1].code = 200 /\ req[2].code = 200
    /\ req[1].ex = req[2].ex
    /\ req[1].op = "releaseInject" /\ req[2].op = "toggleResponses"
    /\ req[2].arg = FALSE
    /\ ParseInt(req[1].raw) # ParseInt(req[2].raw)
    /\ \A q \in Procs :
          \E i \in 1..Len(exercises[req[q].ex].injects) :
              /\ Names(exercises, req[q], i)
              /\ exercises[req[q].ex].injects[i]
                   = WrittenBy(req[q], exercises[req[q].ex].injects[i])
\* C12: once the store calls of a release or toggle are done, the request
\* answers success whatever becomes of the broadcast.
C12_BroadcastNeverFails ==
    [][\A p \in Procs :
          (req[p].pc = "emit" /\ req'[p].pc = "done") => req'[p].code = 200]_vars
\* The position in the store of the participant with this id.
StoredAt(id) ==
    CHOOSE i \in DOMAIN participants : participants[i].participantId = id

Answered(p, op, code) ==
    req[p].op = op /\ req[p].pc = "done" /\ req[p].code = code

\* C13: the leaderboard getScores answers with holds the active participants
\* of the exercise, one row each with the stored totalScore, by totalScore
\* descending, rows of equal totalScore in the order the store holds them.
C13_LeaderboardStableDescending ==
    \A p \in Procs :
        Answered(p, "getScores", 200)
        => LET L == req[p].body.leaderboard
           IN  /\ Len(L) = Cardinality(ActiveIn(req[p].ex))
               /\ \A k \in 1..Len(L) :
                     /\ StoredAt(L[k].participantId) \in ActiveIn(req[p].ex)
                     /\ L[k].totalScore
                          = participants[StoredAt(L[k].participantId)].totalScore
               /\ \A k \in 1..(Len(L) - 1) :
                     \/ L[k].totalScore > L[k + 1].totalScore
                     \/ /\ L[k].totalScore = L[k + 1].totalScore
                        /\ StoredAt(L[k].participantId)
                             < StoredAt(L[k + 1].participantId)

\* Active participants with scores 30, 50, 50, 10 in store order, answered
\* as 50, 50, 30, 10.
C13_Witness ==
    \E p \in Procs :
        /\ Answered(p, "getScores", 200)
        /\ \E a, b, c, d \in ActiveIn(req[p].ex) :
              /\ a < b /\ b < c /\ c < d
              /\ participants[a].totalScore = 30
              /\ participants[b].totalScore = 50
              /\ participants[c].totalScore = 50
              /\ participants[d].totalScore = 10
              /\ Cardinality(ActiveIn(req[p].ex)) = 4
              /\ [k \in 1..4 |-> req[p].body.leaderboard[k].participantId]
                   = << participants[b].participantId, participants[c].participantId,
                        participants[a].participantId, participants[d].participantId >>

RECURSIVE TotalOf(_)
TotalOf(S) ==
    IF S = {} THEN 0
    ELSE LET i == CHOOSE x \in S : TRUE
         IN  participants[i].totalScore + TotalOf(S \ {i})

\* C14: averageScore is the sum of totalScore over the active participants
\* of the exercise divided by their number, totalParticipants is that
\* number, and with no active participant the answer is 0, 0 and an empty
\* leaderboard.
C14_AverageScore ==
    \A p \in Procs :
        Answered(p, "getScores", 200)
        => LET A == ActiveIn(req[p].ex)
               b == req[p].body
           IN  /\ b.totalParticipants = Cardinality(A)
               /\ A # {} => b.averageScore = << TotalOf(A), Cardinality(A) >>
               /\ A = {} => /\ b.averageScore[1] = 0
                            /\ b.leaderboard = << >>

C14_Witness ==
    \E p \in Procs :
        /\ Answered(p, "getScores", 200)
        /\ req[p].body.averageScore = << 80, 2 >>
        /\ \E i \in DOMAIN participants :
              /\ participants[i].exercise = req[p].ex
              /\ participants[i].status # "active"
DirectOps == {"releaseInject", "toggleResponses", "togglePhaseProgression"}

C16_ReleaseFrame ==
    [][\A p \in Procs :
          (StepOf(p) /\ req'[p].op = "releaseInject" /\ req'[p].pc # "idle")
          => \A e \in ExerciseIds :
                /\ exercises'[e].exists = exercises[e].exists
                /\ exercises'[e].title = exercises[e].title
                /\ Len(exercises'[e].injects) = Len(exercises[e].injects)
                /\ \A i \in 1..Len(exercises[e].injects) :
                      LET old == exercises[e].injects[i]
                          new == exercises'[e].injects[i]
                      IN  IF /\ req'[p].id # req[p].id
                             /\ req'[p].ex = e
                             /\ Names(exercises, req'[p], i)
                          THEN /\ new.isActive /\ new.responsesOpen
                               /\ new.releaseTime = << req'[p].now >>
                               /\ new.phaseProgressionLocked = old.phaseProgressionLocked
                               /\ new.title = old.title
                               /\ new.injectNumber = old.injectNumber
                               /\ new.order = old.order
                          ELSE new = old]_vars

\* A release has answered success while the inject another release made
\* active before it is as that release left it.
C16_Witness ==
    \E p, q \in Procs :
        /\ Answered(p, "releaseInject", 200)
        /\ req[q].op = "releaseInject" /\ req[q].id < req[p].id
        /\ req[q].ex = req[p].ex
        /\ ParseInt(req[q].raw) # ParseInt(req[p].raw)
        /\ \E i \in 1..Len(exercises[req[q].ex].injects) :
              /\ Names(exercises, req[q], i)
              /\ exercises[req[q].ex].injects[i].isActive
              /\ exercises[req[q].ex].injects[i].responsesOpen
              /\ exercises[req[q].ex].injects[i].releaseTime = << req[q].now >>
\* The step at which the participant cascade of p's release fails.
CascadeFails(p) == req[p].pc = "updateMany" /\ req'[p].pc = "done"

\* The request answers 500, nothing is emitted, and the inject stays as the
\* release's update left it.
FailsWithoutRollback(p) ==
    /\ req'[p].code = 500
    /\ Len(events') = Len(events)
    /\ exercises' = exercises
    /\ \E i \in 1..Len(exercises'[req[p].ex].injects) :
          /\ Names(exercises', req[p], i)
          /\ exercises'[req[p].ex].injects[i].isActive
          /\ exercises'[req[p].ex].injects[i].responsesOpen
          /\ exercises'[req[p].ex].injects[i].releaseTime = << req[p].now >>

\* C17 as stated: when the cascade fails the inject stays released, the
\* request answers 500 with no event, and every participant is where it was.
C17_CascadeFailureKeepsParticipants ==
    [][\A p \in Procs :
          CascadeFails(p)
          => FailsWithoutRollback(p) /\ participants' = participants]_vars

\* C17: when the cascade fails the inject stays released and the request
\* answers 500 with no event; an active participant of the exercise is
\* either where it was or already at the released inject, phase 1, and every
\* other participant is where it was.
C17_CascadeFailureNoRollback ==
    [][\A p \in Procs :
          CascadeFails(p)
          => /\ FailsWithoutRollback(p)
             /\ \A i \in DOMAIN participants :
                   \/ participants'[i] = participants[i]
                   \/ /\ i \in ActiveIn(req[p].ex)
                      /\ participants'[i] =
                           [participants[i] EXCEPT
                               !.currentInject = ParseInt(req[p].raw),
                               !.currentPhase = 1]]_vars

\* A release has answered 500, its inject is active, and an active
\* participant that had advanced is still at its phase of no inject.
C17_Witness ==
    \E p \in Procs :
        /\ Answered(p, "releaseInject", 500)
        /\ \E i \in 1..Len(exercises[req[p].ex].injects) :
              Names(exercises, req[p], i) /\ exercises[req[p].ex].injects[i].isActive
        /\ \E i \in ActiveIn(req[p].ex) :
              /\ participants[i].currentInject # ParseInt(req[p].raw)
              /\ participants[i].currentPhase > 1
        /\ events = << >>
\* Both slots hold a request of this operation that has answered success,
\* for the same exercise.
BothAnswered(op) ==
    /\ Answered(1, op, 200) /\ Answered(2, op, 200)
    /\ req[1].ex = req[2].ex

\* The slot whose request made its update last (ids follow the order of the
\* first store calls).
LastUpdater == IF req[1].id > req[2].id THEN 1 ELSE 2

OpposedToggles(op) ==
    /\ BothAnswered(op)
    /\ ParseInt(req[1].raw) = ParseInt(req[2].raw)
    /\ req[1].arg # req[2].arg

StoredFlag(p) ==
    Stored(exercises, req[p].ex, ParseInt(req[p].raw))[1][Named(req[p].op)]

\* C19 as stated: after two interleaved toggles of one inject with different
\* values, the event emitted last carries the stored value.
C19_LastEventMatchesStore ==
    \A op \in {"toggleResponses", "togglePhaseProgression"} :
        OpposedToggles(op) => events[Len(events)].value = StoredFlag(1)

\* C19: after two interleaved toggles of one inject with different values,
\* the inject holds the value of the toggle whose update came last, and the
\* two events emitted carry the two values, one each.
C19_LastWriterWins ==
    \A op \in {"toggleResponses", "togglePhaseProgression"} :
        OpposedToggles(op)
        => /\ StoredFlag(1) = req[LastUpdater].arg
           /\ Len(events) >= 2
           /\ events[Len(events)].name = ToggleEventName(op)
           /\ events[Len(events) - 1].name = ToggleEventName(op)
           /\ events[Len(events)].value # events[Len(events) - 1].value

\* Both toggles have answered and the last event disagrees with the store.
C19_Witness ==
    /\ OpposedToggles("toggleResponses")
    /\ events[Len(events)].value # StoredFlag(1)
====
